---- MODULE Spec2Model ----
(***************************************************************************)
(* A model of the WebDriverAgent session client (session.go).              *)
(*                                                                         *)
(* A Session holds one field, sessionURL.  Every exported method builds a  *)
(* request body, performs a blocking request through the transport and     *)
(* interprets the response.  One action of the model is one whole method   *)
(* invocation; the variable call records what the invocation was given,    *)
(* which requests it issued and what it returned.                          *)
(*                                                                         *)
(* JSON documents are modelled structurally: a value is a record           *)
(* [kind, v]; a text (a Go string holding a document or anything else) is  *)
(* either the serialisation of a value or plain characters that are no     *)
(* JSON document.                                                          *)
(***************************************************************************)
EXTENDS Integers, Sequences, FiniteSets, TLC

VARIABLES sessionURL, created, call, openFiles

vars == <<sessionURL, created, call, openFiles>>

-----------------------------------------------------------------------------
(* Bounds of the model *)

\* longest pasteboard content (in bytes) that is enumerated exhaustively
MaxLen == 2
\* longest array of results / apps a response carries
MaxResults == 2
\* largest coordinate passed to the gesture methods
MaxCoord == 1

-----------------------------------------------------------------------------
(* JSON values *)

JNull == [kind |-> "null", v |-> 0]
\* the result of a lookup that found nothing
JAbsent == [kind |-> "absent", v |-> 0]
JStr(s) == [kind |-> "string", v |-> s]
\* an integer number
JNum(n) == [kind |-> "number", v |-> n]
\* a number with a fractional part, kept in hundredths (92 is 0.92)
JFrac(h) == [kind |-> "fraction", v |-> h]
JBool(b) == [kind |-> "bool", v |-> b]
\* f maps every member name to its value
JObj(f) == [kind |-> "object", v |-> f]
JArr(items) == [kind |-> "array", v |-> items]

\* a Go string holding the serialisation of the JSON value j
TextOf(j) == [t |-> "json", j |-> j]
\* a Go string holding the characters s, which are no JSON document
PlainText(s) == [t |-> "plain", s |-> s]
EmptyText == PlainText("")

-----------------------------------------------------------------------------
(* gjson.Result *)

\* Result.Get(key): the member of an object; nothing for any other value
Get(r, key) ==
    IF r.kind = "object" /\ key \in DOMAIN r.v THEN r.v[key] ELSE JAbsent

\* Result.String(): the characters of a string, nothing for null or a
\* missing value, the raw JSON otherwise
String(r) ==
    CASE r.kind \in {"null", "absent"} -> EmptyText
      [] r.kind = "string" -> PlainText(r.v)
      [] OTHER -> TextOf(r)

\* Result.Array(): the items of an array, no item for null or a missing
\* value, and any other value as an array of that one value
Array(r) ==
    CASE r.kind \in {"null", "absent"} -> <<>>
      [] r.kind = "array" -> r.v
      [] OTHER -> <<r>>

\* Result.Int(): the integer of a number, 0 for everything that is none
Int_(r) ==
    CASE r.kind = "number" -> r.v
      [] r.kind = "fraction" -> r.v \div 100
      [] r.kind = "bool" -> IF r.v THEN 1 ELSE 0
      [] OTHER -> 0

-----------------------------------------------------------------------------
(* errors *)

Nil == "nil"
ErrNoSuchElement == "no such element"
\* an error of the transport (connection failure, bad status)
ErrTransport == "transport error"
\* the error getErrMsg builds from the message embedded in a response
ErrServer == "server error"
\* *json.SyntaxError and *json.UnmarshalTypeError
ErrSyntax == "json syntax error"
ErrType == "json type error"
\* the errors of os.Open and ioutil.ReadAll
ErrOpen == "open error"
ErrRead == "read error"

-----------------------------------------------------------------------------
(* encoding/json: Unmarshal into the typed structs *)

\* A schema lists the exported fields of a struct: the JSON key, the Go
\* field, the Go type and, for a nested struct, its own schema.
Fld(key, field, type) == [key |-> key, field |-> field, type |-> type, sub |-> <<>>]
Sub(key, field, sub) == [key |-> key, field |-> field, type |-> "struct", sub |-> sub]

RECURSIVE DecodeInto(_, _, _)
RECURSIVE DecodeFields(_, _, _, _)

\* the decoder stores one member of an object in the field it belongs to
DecodeField(dst, f, val) ==
    CASE val.kind = "null" -> [dst |-> dst, err |-> Nil]
      [] f.type = "struct" ->
            LET r == DecodeInto(dst[f.field], val, f.sub)
            IN  [dst |-> [dst EXCEPT ![f.field] = r.dst], err |-> r.err]
      [] f.type = "int" /\ val.kind = "number" ->
            [dst |-> [dst EXCEPT ![f.field] = val.v], err |-> Nil]
      [] f.type = "float32" /\ val.kind = "number" ->
            [dst |-> [dst EXCEPT ![f.field] = 100 * val.v], err |-> Nil]
      [] f.type = "float32" /\ val.kind = "fraction" ->
            [dst |-> [dst EXCEPT ![f.field] = val.v], err |-> Nil]
      [] f.type = "string" /\ val.kind = "string" ->
            [dst |-> [dst EXCEPT ![f.field] = val.v], err |-> Nil]
      [] f.type = "bool" /\ val.kind = "bool" ->
            [dst |-> [dst EXCEPT ![f.field] = val.v], err |-> Nil]
      [] OTHER -> [dst |-> dst, err |-> ErrType]

\* the fields i.. of the schema, one after the other; a type error is kept
\* (the first one) and decoding goes on with the next member
DecodeFields(dst, obj, schema, i) ==
    IF i > Len(schema) THEN [dst |-> dst, err |-> Nil]
    ELSE LET f == schema[i]
             one == IF f.key \in DOMAIN obj
                    THEN DecodeField(dst, f, obj[f.key])
                    ELSE [dst |-> dst, err |-> Nil]
             rest == DecodeFields(one.dst, obj, schema, i + 1)
         IN  [dst |-> rest.dst,
              err |-> IF one.err # Nil THEN one.err ELSE rest.err]

\* a JSON value decoded into a struct that already holds dst: null changes
\* nothing, an object sets the fields it names, anything else is a type
\* error.  Fields outside the schema (the unexported _string) are not touched.
DecodeInto(dst, val, schema) ==
    CASE val.kind = "null" -> [dst |-> dst, err |-> Nil]
      [] val.kind = "object" -> DecodeFields(dst, val.v, schema, 1)
      [] OTHER -> [dst |-> dst, err |-> ErrType]

\* json.Unmarshal([]byte(text), &dst)
Unmarshal(text, dst, schema) ==
    IF text.t = "json" THEN DecodeInto(dst, text.j, schema)
    ELSE [dst |-> dst, err |-> ErrSyntax]

-----------------------------------------------------------------------------
(* encoding/base64 *)

\* base64.StdEncoding's alphabet, and base64.URLEncoding's
StdAlphabet ==
    << "A","B","C","D","E","F","G","H","I","J","K","L","M","N","O","P",
       "Q","R","S","T","U","V","W","X","Y","Z","a","b","c","d","e","f",
       "g","h","i","j","k","l","m","n","o","p","q","r","s","t","u","v",
       "w","x","y","z","0","1","2","3","4","5","6","7","8","9","+","/" >>
URLAlphabet == [i \in 1..64 |->
    IF i = 63 THEN "-" ELSE IF i = 64 THEN "_" ELSE StdAlphabet[i]]
Pad == "="

RECURSIVE EncodeToString(_, _)
\* Encoding.EncodeToString: three bytes give four characters; a last group
\* of one or two bytes is padded to four characters with "="
EncodeToString(alpha, src) ==
    LET n == Len(src)
        b(i) == IF i <= n THEN src[i] ELSE 0
        bits == b(1) * 65536 + b(2) * 256 + b(3)
        c(k) == alpha[((bits \div (64 ^ (4 - k))) % 64) + 1]
    IN  IF n = 0 THEN <<>>
        ELSE IF n = 1 THEN <<c(1), c(2), Pad, Pad>>
        ELSE IF n = 2 THEN <<c(1), c(2), c(3), Pad>>
        ELSE <<c(1), c(2), c(3), c(4)>> \o EncodeToString(alpha, SubSeq(src, 4, n))

RECURSIVE DecodeString(_, _)
\* Encoding.DecodeString: the bytes a padded encoding stands for; ok is
\* FALSE for text that is no encoding in this alphabet
DecodeString(alpha, s) ==
    LET n == Len(s)
        Known(ch) == \E i \in 1..64 : alpha[i] = ch
        Idx(ch) == (CHOOSE i \in 1..64 : alpha[i] = ch) - 1
        v(k) == IF s[k] = Pad THEN 0 ELSE Idx(s[k])
        bits == v(1) * 262144 + v(2) * 4096 + v(3) * 64 + v(4)
        b1 == bits \div 65536
        b2 == (bits \div 256) % 256
        b3 == bits % 256
        bad == [ok |-> FALSE, bytes |-> <<>>]
    IN  IF n = 0 THEN [ok |-> TRUE, bytes |-> <<>>]
        ELSE IF n < 4 THEN bad
        ELSE IF ~(Known(s[1]) /\ Known(s[2])) THEN bad
        ELSE IF s[3] = Pad THEN
            IF s[4] = Pad /\ n = 4 /\ bits % 65536 = 0
            THEN [ok |-> TRUE, bytes |-> <<b1>>] ELSE bad
        ELSE IF ~Known(s[3]) THEN bad
        ELSE IF s[4] = Pad THEN
            IF n = 4 /\ bits % 256 = 0
            THEN [ok |-> TRUE, bytes |-> <<b1, b2>>] ELSE bad
        ELSE IF ~Known(s[4]) THEN bad
        ELSE LET rest == DecodeString(alpha, SubSeq(s, 5, n))
             IN  IF rest.ok THEN [ok |-> TRUE, bytes |-> <<b1, b2, b3>> \o rest.bytes]
                 ELSE bad

-----------------------------------------------------------------------------
(* URLs, request bodies and the transport *)

\* A URL is the sequence of its path segments (scheme and host never
\* change and are left out).  urlJoin appends the segments of elem to the
\* path of a copy of endpoint; empty elements add nothing.
urlJoin(endpoint, elem) ==
    endpoint \o SelectSeq(elem, LAMBDA e : e # "")

\* newWdaBody(): a body with no field
newWdaBody == [k \in {} |-> 0]
\* wdaBody.set(key, value)
set(body, key, value) ==
    [k \in DOMAIN body \cup {key} |-> IF k = key THEN value ELSE body[k]]
setXY(body, x, y) == set(set(body, "x", x), "y", y)
setBundleID(body, bundleId) == set(body, "bundleId", bundleId)
setSendKeys(body, text) == set(body, "value", text)

RECURSIVE SetAll(_, _, _)
SetAll(body, opt, keys) ==
    IF keys = {} THEN body
    ELSE LET k == CHOOSE x \in keys : TRUE
         IN  SetAll(set(body, k, opt[k]), opt, keys \ {k})
\* wdaBody.setAppLaunchOption(opt): every field of opt is set in the body
setAppLaunchOption(body, opt) == SetAll(body, opt, DOMAIN opt)

\* What the transport does with one request: it fails, or it delivers a
\* response whose "value" member is value.
Delivered(value) == [ok |-> TRUE, value |-> value]
Failed == [ok |-> FALSE, value |-> JAbsent]

Request(method, url, body) == [method |-> method, url |-> url, body |-> body]

executeHTTP(method, url, body, t) ==
    [req |-> Request(method, url, body),
     resp |-> [value |-> IF t.ok THEN t.value ELSE JAbsent],
     err |-> IF t.ok THEN Nil ELSE ErrTransport]
internalGet(actionName, url, t) == executeHTTP("GET", url, newWdaBody, t)
internalPost(actionName, url, body, t) == executeHTTP("POST", url, body, t)
internalDelete(actionName, url, t) == executeHTTP("DELETE", url, newWdaBody, t)

\* wdaResponse.getValue()
getValue(wdaResp) == wdaResp.value
\* wdaResponse.getErrMsg(): an error when the response embeds a message
getErrMsg(wdaResp) ==
    IF String(Get(getValue(wdaResp), "message")) = EmptyText THEN Nil ELSE ErrServer

-----------------------------------------------------------------------------
(* the typed results *)

WDASessionInfoSchema ==
    << Sub("capabilities", "Capabilities",
           << Fld("CFBundleIdentifier", "CFBundleIdentifier", "string"),
              Fld("browserName", "BrowserName", "string"),
              Fld("device", "Device", "string"),
              Fld("sdkVersion", "SdkVersion", "string") >>),
       Fld("sessionId", "SessionID", "string") >>
WDASessionInfo ==
    [Capabilities |-> [CFBundleIdentifier |-> "", BrowserName |-> "",
                       Device |-> "", SdkVersion |-> ""],
     SessionID |-> "", _string |-> EmptyText]

WDADeviceInfoSchema ==
    << Fld("timeZone", "TimeZone", "string"),
       Fld("currentLocale", "CurrentLocale", "string"),
       Fld("model", "Model", "string"),
       Fld("uuid", "UUID", "string"),
       Fld("userInterfaceIdiom", "UserInterfaceIdiom", "int"),
       Fld("userInterfaceStyle", "UserInterfaceStyle", "string"),
       Fld("name", "Name", "string"),
       Fld("isSimulator", "IsSimulator", "bool") >>
WDADeviceInfo ==
    [TimeZone |-> "", CurrentLocale |-> "", Model |-> "", UUID |-> "",
     UserInterfaceIdiom |-> 0, UserInterfaceStyle |-> "", Name |-> "",
     IsSimulator |-> FALSE, _string |-> EmptyText]

WDABatteryInfoSchema ==
    << Fld("level", "Level", "float32"), Fld("state", "State", "int") >>
\* Level is kept in hundredths
WDABatteryInfo == [Level |-> 0, State |-> 0, _string |-> EmptyText]

WDABatteryUnplugged == 1
WDABatteryCharging == 2
WDABatteryFull == 3

\* WDABatteryState.String() with the phrases of charging and full exchanged
WDABatteryStateStringSwapped(v) ==
    CASE v = WDABatteryUnplugged -> "On battery, discharging"
      [] v = WDABatteryCharging -> "Plugged in, at 100%"
      [] v = WDABatteryFull -> "Plugged in, less than 100%"
      [] OTHER -> "UNKNOWN"

\* WDABatteryState.String()
WDABatteryState_String(v) ==
    CASE v = WDABatteryUnplugged -> "On battery, discharging"
      [] v = WDABatteryCharging -> "Plugged in, less than 100%"
      [] v = WDABatteryFull -> "Plugged in, at 100%"
      [] OTHER -> "UNKNOWN"

WDASizeSchema == << Fld("width", "Width", "int"), Fld("height", "Height", "int") >>
WDASize == [Width |-> 0, Height |-> 0, _string |-> EmptyText]

WDAScreenSchema ==
    << Sub("statusBarSize", "StatusBarSize", WDASizeSchema),
       Fld("scale", "Scale", "float32") >>
\* Scale is kept in hundredths
WDAScreen == [StatusBarSize |-> WDASize, Scale |-> 0, _string |-> EmptyText]

\* an entry of the list of running apps
WDAAppBaseInfoSchema ==
    << Fld("pid", "Pid", "int"), Fld("bundleId", "BundleID", "string") >>
WDAAppBaseInfo == [Pid |-> 0, BundleID |-> "", _string |-> EmptyText]

RECURSIVE DecodeItems(_, _, _, _)
\* the items i.. of an array, each decoded into a new zero element
DecodeItems(items, zero, schema, i) ==
    IF i > Len(items) THEN [dst |-> <<>>, err |-> Nil]
    ELSE LET one == DecodeInto(zero, items[i], schema)
             rest == DecodeItems(items, zero, schema, i + 1)
         IN  [dst |-> <<one.dst>> \o rest.dst,
              err |-> IF one.err # Nil THEN one.err ELSE rest.err]

\* json.Unmarshal([]byte(text), &slice) for a slice of structs
UnmarshalSlice(text, dst, zero, schema) ==
    IF text.t # "json" THEN [dst |-> dst, err |-> ErrSyntax]
    ELSE CASE text.j.kind = "null" -> [dst |-> <<>>, err |-> Nil]
           [] text.j.kind = "array" -> DecodeItems(text.j.v, zero, schema, 1)
           [] OTHER -> [dst |-> dst, err |-> ErrType]

\* String() of a typed result: the text it keeps
String_(info) == info._string

\* Element{}: the handle with no URL, and a handle with one
NoURL == <<>>
Element(elementURL) == [elementURL |-> elementURL]

\* what a method that returns only an error returns beside it
None == "none"

-----------------------------------------------------------------------------
(* Session methods.  s is the receiver, t what the transport does with the  *)
(* request of the invocation.  The result holds the receiver after the call, *)
(* the requests issued in order, the returned value and the returned error.  *)

Ret(s, reqs, ret, err) == [s |-> s, reqs |-> reqs, ret |-> ret, err |-> err]

GetActiveSession(s, t) ==
    LET r == internalGet("GetActiveSession", urlJoin(s.sessionURL, <<"">>), t)
        info == [WDASessionInfo EXCEPT !["_string"] = String(getValue(r.resp))]
        d == Unmarshal(info["_string"], info, WDASessionInfoSchema)
    IN  IF r.err # Nil THEN Ret(s, <<r.req>>, WDASessionInfo, r.err)
        ELSE Ret(s, <<r.req>>, d.dst, d.err)

DeleteSession(s, t) ==
    LET r == internalDelete("DeleteSession", s.sessionURL, t)
    IN  Ret(s, <<r.req>>, None, r.err)

\* launch options
NewWDAAppLaunchOption == newWdaBody
SetShouldWaitForQuiescence(alo, b) == set(alo, "shouldWaitForQuiescence", b)
SetArguments(alo, args) == set(alo, "arguments", args)
SetEnvironment(alo, env) == set(alo, "environment", env)

\* AppLaunch whose default option does not wait for quiescence
AppLaunchDefaultNoWait(s, bundleId, opt, t) ==
    LET opt1 == IF Len(opt) = 0
                THEN <<SetShouldWaitForQuiescence(NewWDAAppLaunchOption, FALSE)>>
                ELSE opt
        body == setAppLaunchOption(setBundleID(newWdaBody, bundleId), opt1[1])
        r == internalPost("AppLaunch", urlJoin(s.sessionURL, <<"wda", "apps", "launch">>), body, t)
    IN  Ret(s, <<r.req>>, None, r.err)

\* opt is the sequence of the variadic arguments
AppLaunch(s, bundleId, opt, t) ==
    LET opt1 == IF Len(opt) = 0
                THEN <<SetShouldWaitForQuiescence(NewWDAAppLaunchOption, TRUE)>>
                ELSE opt
        body == setAppLaunchOption(setBundleID(newWdaBody, bundleId), opt1[1])
        r == internalPost("AppLaunch", urlJoin(s.sessionURL, <<"wda", "apps", "launch">>), body, t)
    IN  Ret(s, <<r.req>>, None, r.err)

\* DeviceInfo returning an empty result when decoding fails
DeviceInfoDropsFailed(s, t) ==
    LET r == internalGet("DeviceInfo", urlJoin(s.sessionURL, <<"wda", "device", "info">>), t)
        info == [WDADeviceInfo EXCEPT !["_string"] = String(getValue(r.resp))]
        d == Unmarshal(info["_string"], info, WDADeviceInfoSchema)
    IN  IF r.err # Nil THEN Ret(s, <<r.req>>, WDADeviceInfo, r.err)
        ELSE IF d.err # Nil THEN Ret(s, <<r.req>>, WDADeviceInfo, d.err)
        ELSE Ret(s, <<r.req>>, d.dst, d.err)


DeviceInfo(s, t) ==
    LET r == internalGet("DeviceInfo", urlJoin(s.sessionURL, <<"wda", "device", "info">>), t)
        info == [WDADeviceInfo EXCEPT !["_string"] = String(getValue(r.resp))]
        d == Unmarshal(info["_string"], info, WDADeviceInfoSchema)
    IN  IF r.err # Nil THEN Ret(s, <<r.req>>, WDADeviceInfo, r.err)
        ELSE Ret(s, <<r.req>>, d.dst, d.err)

BatteryInfo(s, t) ==
    LET r == internalGet("BatteryInfo", urlJoin(s.sessionURL, <<"wda", "batteryInfo">>), t)
        info == [WDABatteryInfo EXCEPT !["_string"] = String(getValue(r.resp))]
        d == Unmarshal(info["_string"], info, WDABatteryInfoSchema)
    IN  IF r.err # Nil THEN Ret(s, <<r.req>>, WDABatteryInfo, r.err)
        ELSE Ret(s, <<r.req>>, d.dst, d.err)

WindowSize(s, t) ==
    LET r == internalGet("WindowSize", urlJoin(s.sessionURL, <<"window", "size">>), t)
        size == [WDASize EXCEPT !["_string"] = String(getValue(r.resp))]
        d == Unmarshal(size["_string"], size, WDASizeSchema)
    IN  IF r.err # Nil THEN Ret(s, <<r.req>>, WDASize, r.err)
        ELSE Ret(s, <<r.req>>, d.dst, d.err)

\* Screen keeping the text of the whole value in the nested size as well
ScreenNestedKeepsWhole(s, t) ==
    LET r == internalGet("Screen", urlJoin(s.sessionURL, <<"wda", "screen">>), t)
        s1 == [WDAScreen EXCEPT !.StatusBarSize["_string"] = String(getValue(r.resp))]
        s2 == [s1 EXCEPT !["_string"] = String(getValue(r.resp))]
        d == Unmarshal(s2["_string"], s2, WDAScreenSchema)
    IN  IF r.err # Nil THEN Ret(s, <<r.req>>, WDAScreen, r.err)
        ELSE Ret(s, <<r.req>>, d.dst, d.err)


Screen(s, t) ==
    LET r == internalGet("Screen", urlJoin(s.sessionURL, <<"wda", "screen">>), t)
        s1 == [WDAScreen EXCEPT !.StatusBarSize["_string"] =
                                    String(Get(getValue(r.resp), "statusBarSize"))]
        s2 == [s1 EXCEPT !["_string"] = String(getValue(r.resp))]
        d == Unmarshal(s2["_string"], s2, WDAScreenSchema)
    IN  IF r.err # Nil THEN Ret(s, <<r.req>>, WDAScreen, r.err)
        ELSE Ret(s, <<r.req>>, d.dst, d.err)

\* Scale asking for the screen once more when the first call failed
ScaleRetries(s, t) ==
    LET r == Screen(s, t)
        again == Screen(r.s, t)
    IN  IF r.err # Nil THEN Ret(again.s, r.reqs \o again.reqs, again.ret.Scale, again.err)
        ELSE Ret(r.s, r.reqs, r.ret.Scale, r.err)


Scale(s, t) ==
    LET r == Screen(s, t)
    IN  Ret(r.s, r.reqs, r.ret.Scale, r.err)

StatusBarSize(s, t) ==
    LET r == Screen(s, t)
    IN  Ret(r.s, r.reqs, r.ret.StatusBarSize, r.err)

ActiveAppsList(s, t) ==
    LET r == internalGet("ActiveAppsList", urlJoin(s.sessionURL, <<"wda", "apps", "list">>), t)
        d == UnmarshalSlice(String(getValue(r.resp)), <<>>, WDAAppBaseInfo,
                            WDAAppBaseInfoSchema)
    IN  IF r.err # Nil THEN Ret(s, <<r.req>>, <<>>, r.err)
        ELSE Ret(s, <<r.req>>, d.dst, d.err)

Tap(s, x, y, t) ==
    LET body == setXY(newWdaBody, x, y)
        r == internalPost("Tap", urlJoin(s.sessionURL, <<"wda", "tap", "0">>), body, t)
    IN  IF r.err # Nil THEN Ret(s, <<r.req>>, None, r.err)
        ELSE Ret(s, <<r.req>>, None, getErrMsg(r.resp))

DoubleTap(s, x, y, t) ==
    LET body == setXY(newWdaBody, x, y)
        r == internalPost("DoubleTap", urlJoin(s.sessionURL, <<"wda", "doubleTap">>), body, t)
    IN  Ret(s, <<r.req>>, None, r.err)

\* duration is the sequence of the variadic arguments, in hundredths
TouchAndHold(s, x, y, duration, t) ==
    LET body0 == setXY(newWdaBody, x, y)
        body == IF Len(duration) = 0 THEN set(body0, "duration", 100)
                ELSE set(body0, "duration", duration[1])
        r == internalPost("TouchAndHold", urlJoin(s.sessionURL, <<"wda", "touchAndHold">>), body, t)
    IN  Ret(s, <<r.req>>, None, r.err)

AppTerminate(s, bundleId, t) ==
    LET body == setBundleID(newWdaBody, bundleId)
        r == internalPost("AppTerminate", urlJoin(s.sessionURL, <<"wda", "apps", "terminate">>), body, t)
    IN  Ret(s, <<r.req>>, None, r.err)

AppState(s, bundleId, t) ==
    LET body == setBundleID(newWdaBody, bundleId)
        r == internalPost("AppState", urlJoin(s.sessionURL, <<"wda", "apps", "state">>), body, t)
    IN  IF r.err # Nil THEN Ret(s, <<r.req>>, -1, r.err)
        ELSE Ret(s, <<r.req>>, Int_(getValue(r.resp)), Nil)

SendKeys(s, text, t) ==
    LET body == setSendKeys(newWdaBody, text)
        r == internalPost("SendKeys", urlJoin(s.sessionURL, <<"wda", "keys">>), body, t)
    IN  IF r.err # Nil THEN Ret(s, <<r.req>>, None, r.err)
        ELSE Ret(s, <<r.req>>, None, getErrMsg(r.resp))

RECURSIVE ElementsOf(_, _, _)
\* the loop of FindElements over the results i..
ElementsOf(s, results, i) ==
    IF i > Len(results) THEN <<>>
    ELSE LET elementId == String(Get(results[i], "ELEMENT")).s
         IN  <<Element(urlJoin(s.sessionURL, <<"element", elementId>>))>>
             \o ElementsOf(s, results, i + 1)

\* FindElements with the loop starting at the second result
FindElementsSkipsFirst(s, using, value, t) ==
    LET body == set(set(newWdaBody, "using", using), "value", value)
        r == internalPost("FindElements", urlJoin(s.sessionURL, <<"elements">>), body, t)
        results == Array(getValue(r.resp))
    IN  IF r.err # Nil THEN Ret(s, <<r.req>>, <<>>, r.err)
        ELSE IF Len(results) = 0 THEN Ret(s, <<r.req>>, <<>>, ErrNoSuchElement)
        ELSE Ret(s, <<r.req>>, ElementsOf(s, results, 2), Nil)


FindElements(s, using, value, t) ==
    LET body == set(set(newWdaBody, "using", using), "value", value)
        r == internalPost("FindElements", urlJoin(s.sessionURL, <<"elements">>), body, t)
        results == Array(getValue(r.resp))
    IN  IF r.err # Nil THEN Ret(s, <<r.req>>, <<>>, r.err)
        ELSE IF Len(results) = 0 THEN Ret(s, <<r.req>>, <<>>, ErrNoSuchElement)
        ELSE Ret(s, <<r.req>>, ElementsOf(s, results, 1), Nil)

\* FindElement without the test for an empty identifier
FindElementNoEmptyTest(s, using, value, t) ==
    LET body == set(set(newWdaBody, "using", using), "value", value)
        r == internalPost("FindElements", urlJoin(s.sessionURL, <<"element">>), body, t)
        elementID == String(Get(getValue(r.resp), "ELEMENT")).s
    IN  IF r.err # Nil THEN Ret(s, <<r.req>>, Element(NoURL), r.err)
        ELSE Ret(s, <<r.req>>, Element(urlJoin(s.sessionURL, <<"element", elementID>>)), Nil)

\* FindElement keeping the parsed element URL in the session
FindElementKeepsURL(s, using, value, t) ==
    LET body == set(set(newWdaBody, "using", using), "value", value)
        r == internalPost("FindElements", urlJoin(s.sessionURL, <<"element">>), body, t)
        elementID == String(Get(getValue(r.resp), "ELEMENT")).s
        elementURL == urlJoin(s.sessionURL, <<"element", elementID>>)
    IN  IF r.err # Nil THEN Ret(s, <<r.req>>, Element(NoURL), r.err)
        ELSE IF elementID = "" THEN Ret(s, <<r.req>>, Element(NoURL), ErrNoSuchElement)
        ELSE Ret([s EXCEPT !.sessionURL = elementURL], <<r.req>>, Element(elementURL), Nil)


FindElement(s, using, value, t) ==
    LET body == set(set(newWdaBody, "using", using), "value", value)
        r == internalPost("FindElements", urlJoin(s.sessionURL, <<"element">>), body, t)
        elementID == String(Get(getValue(r.resp), "ELEMENT")).s
    IN  IF r.err # Nil THEN Ret(s, <<r.req>>, Element(NoURL), r.err)
        ELSE IF elementID = "" THEN Ret(s, <<r.req>>, Element(NoURL), ErrNoSuchElement)
        ELSE Ret(s, <<r.req>>, Element(urlJoin(s.sessionURL, <<"element", elementID>>)), Nil)

AppActivate(s, bundleId, t) ==
    LET body == setBundleID(newWdaBody, bundleId)
        r == internalPost("AppActivate", urlJoin(s.sessionURL, <<"wda", "apps", "activate">>), body, t)
    IN  Ret(s, <<r.req>>, None, r.err)

\* seconds is the sequence of the variadic arguments, in hundredths
AppDeactivate(s, seconds, t) ==
    LET body == IF Len(seconds) # 0 THEN set(newWdaBody, "duration", seconds[1])
                ELSE newWdaBody
        r == internalPost("AppDeactivate", urlJoin(s.sessionURL, <<"wda", "deactivateApp">>), body, t)
    IN  IF r.err # Nil THEN Ret(s, <<r.req>>, None, r.err)
        ELSE Ret(s, <<r.req>>, None, getErrMsg(r.resp))

WDAContentTypePlaintext == "plaintext"
WDAContentTypeImage == "image"
WDAContentTypeUrl == "url"

SetPasteboard(s, contentType, encodedContent, t) ==
    LET body == set(set(newWdaBody, "contentType", contentType), "content", encodedContent)
        r == internalPost("SetPasteboard", urlJoin(s.sessionURL, <<"wda", "setPasteboard">>), body, t)
    IN  Ret(s, <<r.req>>, None, r.err)

\* SetPasteboardForPlaintext encoding as SetPasteboardForUrl does
SetPasteboardForPlaintextURLEncoding(s, content, t) ==
    LET encodedContent == EncodeToString(URLAlphabet, content)
    IN  SetPasteboard(s, WDAContentTypePlaintext, encodedContent, t)

\* content is the sequence of the bytes of the string
SetPasteboardForPlaintext(s, content, t) ==
    LET encodedContent == EncodeToString(StdAlphabet, content)
    IN  SetPasteboard(s, WDAContentTypePlaintext, encodedContent, t)

\* SetPasteboardForImage closing the file after the post instead of
\* deferring the Close: a failed read returns with the file open
SetPasteboardForImageClosesLate(s, filename, fs, files, t) ==
    LET opened == files \cup {filename}
        closed == opened \ {filename}
        encodedContent == EncodeToString(StdAlphabet, fs.data)
        post == SetPasteboard(s, WDAContentTypeImage, encodedContent, t)
    IN  IF ~fs.open THEN Ret(s, <<>>, None, ErrOpen) @@ [files |-> files]
        ELSE IF ~fs.read THEN Ret(s, <<>>, None, ErrRead) @@ [files |-> opened]
        ELSE post @@ [files |-> closed]

\* fs is what the file system does with the file: whether os.Open and
\* ioutil.ReadAll succeed, and the bytes read.  files are the handles open
\* before the call; the result names those open when it returns.
SetPasteboardForImage(s, filename, fs, files, t) ==
    LET opened == files \cup {filename}
        \* the deferred imgFile.Close() runs when the function returns
        closed == opened \ {filename}
        encodedContent == EncodeToString(StdAlphabet, fs.data)
        post == SetPasteboard(s, WDAContentTypeImage, encodedContent, t)
    IN  IF ~fs.open THEN Ret(s, <<>>, None, ErrOpen) @@ [files |-> files]
        ELSE IF ~fs.read THEN Ret(s, <<>>, None, ErrRead) @@ [files |-> closed]
        ELSE post @@ [files |-> closed]

\* url is the sequence of the bytes of the string
SetPasteboardForUrl(s, url, t) ==
    LET encodedContent == EncodeToString(URLAlphabet, url)
    IN  SetPasteboard(s, WDAContentTypeUrl, encodedContent, t)

WDADeviceButtonHome == "home"
WDADeviceButtonVolumeUp == "volumeUp"
WDADeviceButtonVolumeDown == "volumeDown"

PressButton(s, wdaDeviceButton, t) ==
    LET body == set(newWdaBody, "name", wdaDeviceButton)
        r == internalPost("PressButton", urlJoin(s.sessionURL, <<"wda", "pressButton">>), body, t)
    IN  Ret(s, <<r.req>>, None, r.err)

PressHomeButton(s, t) == PressButton(s, WDADeviceButtonHome, t)
PressVolumeUpButton(s, t) == PressButton(s, WDADeviceButtonVolumeUp, t)
PressVolumeDownButton(s, t) == PressButton(s, WDADeviceButtonVolumeDown, t)

SiriActivate(s, text, t) ==
    LET body == set(newWdaBody, "text", text)
        r == internalPost("SiriActivate", urlJoin(s.sessionURL, <<"wda", "siri", "activate">>), body, t)
    IN  Ret(s, <<r.req>>, None, r.err)

SiriOpenURL(s, url, t) ==
    LET body == set(newWdaBody, "url", url)
        r == internalPost("SiriOpenURL", urlJoin(s.sessionURL, <<"url">>), body, t)
    IN  Ret(s, <<r.req>>, None, r.err)

GetAppiumSettings(s, t) ==
    LET r == internalGet("GetAppiumSettings", urlJoin(s.sessionURL, <<"appium", "settings">>), t)
    IN  IF r.err # Nil THEN Ret(s, <<r.req>>, EmptyText, r.err)
        ELSE Ret(s, <<r.req>>, String(getValue(r.resp)), Nil)

\* settings maps every key to its value
SetAppiumSettings(s, settings, t) ==
    LET body == set(newWdaBody, "settings", settings)
        r == internalPost("SetAppiumSettings", urlJoin(s.sessionURL, <<"appium", "settings">>), body, t)
    IN  IF r.err # Nil THEN Ret(s, <<r.req>>, EmptyText, r.err)
        ELSE Ret(s, <<r.req>>, String(getValue(r.resp)), Nil)

SetAppiumSetting(s, key, value, t) ==
    SetAppiumSettings(s, set(newWdaBody, key, value), t)

\* The helpers shared with the device client, each one round trip on the
\* URL it is given.
activeAppInfo(baseURL, t) ==
    LET r == internalGet("ActiveAppInfo", urlJoin(baseURL, <<"wda", "activeAppInfo">>), t)
    IN  [reqs |-> <<r.req>>, ret |-> String(getValue(r.resp)), err |-> r.err]
isLocked(baseURL, t) ==
    LET r == internalGet("IsLocked", urlJoin(baseURL, <<"wda", "locked">>), t)
    IN  [reqs |-> <<r.req>>, ret |-> (r.err = Nil /\ getValue(r.resp) = JBool(TRUE)),
         err |-> r.err]
unlock(baseURL, t) ==
    LET r == internalPost("Unlock", urlJoin(baseURL, <<"wda", "unlock">>), newWdaBody, t)
    IN  [reqs |-> <<r.req>>, ret |-> None, err |-> r.err]
lock(baseURL, t) ==
    LET r == internalPost("Lock", urlJoin(baseURL, <<"wda", "lock">>), newWdaBody, t)
    IN  [reqs |-> <<r.req>>, ret |-> None, err |-> r.err]
source(baseURL, t) ==
    LET r == internalGet("Source", urlJoin(baseURL, <<"source">>), t)
    IN  [reqs |-> <<r.req>>, ret |-> String(getValue(r.resp)), err |-> r.err]
accessibleSource(baseURL, t) ==
    LET r == internalGet("AccessibleSource", urlJoin(baseURL, <<"wda", "accessibleSource">>), t)
    IN  [reqs |-> <<r.req>>, ret |-> String(getValue(r.resp)), err |-> r.err]

\* the methods that only hand the session URL to a helper and return what
\* it returns
ActiveAppInfo(s, t) ==
    LET h == activeAppInfo(s.sessionURL, t)
    IN  Ret(s, h.reqs, h.ret, h.err)
IsLocked(s, t) ==
    LET h == isLocked(s.sessionURL, t)
    IN  Ret(s, h.reqs, h.ret, h.err)
Unlock(s, t) ==
    LET h == unlock(s.sessionURL, t)
    IN  Ret(s, h.reqs, h.ret, h.err)
Lock(s, t) ==
    LET h == lock(s.sessionURL, t)
    IN  Ret(s, h.reqs, h.ret, h.err)
Source(s, t) ==
    LET h == source(s.sessionURL, t)
    IN  Ret(s, h.reqs, h.ret, h.err)
AccessibleSource(s, t) ==
    LET h == accessibleSource(s.sessionURL, t)
    IN  Ret(s, h.reqs, h.ret, h.err)

-----------------------------------------------------------------------------
(* The inputs: arguments of the calls and responses of the server *)

SeqsUpTo(S, n) == UNION {[1..k -> S] : k \in 0..n}

\* an object of the members of f that are there (JAbsent marks a member
\* the object does not have)
Members(f) == JObj([k \in {x \in DOMAIN f : f[x].kind # "absent"} |-> f[k]])

BaseURLs == {<<"session", "S1">>, <<"session", "S2">>}

\* the value of a response that reports a failure of the server
ErrorValue == JObj([error |-> JStr("unknown error"), message |-> JStr("boom")])

Outcomes(values) == {Failed} \cup {Delivered(v) : v \in values}
VoidOutcomes == Outcomes({JNull, JBool(TRUE), ErrorValue})

BundleIds == {"com.apple.Preferences", "com.example.app"}

LaunchOptions ==
    { NewWDAAppLaunchOption,
      SetShouldWaitForQuiescence(NewWDAAppLaunchOption, TRUE),
      SetShouldWaitForQuiescence(NewWDAAppLaunchOption, FALSE),
      SetArguments(NewWDAAppLaunchOption, <<"-v">>),
      SetEnvironment(SetShouldWaitForQuiescence(NewWDAAppLaunchOption, TRUE),
                     [DEBUG |-> "1"]) }
LaunchArgs == {<<>>} \cup {<<o>> : o \in LaunchOptions}
                     \cup {<<o, NewWDAAppLaunchOption>> : o \in LaunchOptions}

SessionInfoValues ==
    { JObj([sessionId |-> sid, capabilities |-> caps]) :
        sid \in {JStr("8BF16568"), JNum(5)},
        caps \in { JObj([device |-> JStr("iphone"), browserName |-> JStr("Settings"),
                         sdkVersion |-> JStr("11.4.1"),
                         CFBundleIdentifier |-> JStr("com.apple.Preferences")]),
                   JObj([device |-> JNum(1)]), JStr("none") } }
    \cup {JNull, JStr("gone"), JArr(<<>>), ErrorValue}

DeviceInfoValues ==
    { JObj([timeZone |-> JStr("GMT+0800"), currentLocale |-> JStr("zh_CN"),
            model |-> JStr("iPhone"), uuid |-> JStr("x-x-x-x-x"),
            userInterfaceIdiom |-> idiom, isSimulator |-> sim,
            name |-> JStr("iPhone X")]) :
        idiom \in {JNum(0), JStr("phone")}, sim \in {JBool(FALSE), JNum(0)} }
    \cup {JNull, JStr("gone"), JNum(7), ErrorValue}

BatteryValues ==
    { Members([level |-> l, state |-> st]) :
        l \in {JFrac(92), JNum(1), JAbsent},
        st \in {JNum(n) : n \in {-1, 0, 1, 2, 3, 4}}
               \cup {JAbsent, JNull, JStr("2"), JFrac(250)} }
    \cup {JNull, JStr("gone"), ErrorValue}

SizeObjects ==
    { Members([width |-> w, height |-> h]) :
        w \in {JNum(375), JNum(812), JAbsent, JStr("wide")},
        h \in {JNum(44), JNum(375), JAbsent, JNull} }
SizeValues == SizeObjects \cup {JNull, JStr("gone"), JNum(5), ErrorValue}

ScreenValues ==
    { Members([statusBarSize |-> sb, scale |-> sc]) :
        sb \in SizeObjects \cup {JAbsent, JNull, JNum(5), JStr("bar")},
        sc \in {JNum(3), JFrac(250), JAbsent} }
    \cup {JNull, JStr("gone"), ErrorValue}

AppsListValues ==
    {JArr(a) : a \in SeqsUpTo(
        { JObj([pid |-> JNum(3573), bundleId |-> JStr("com.apple.DocumentsApp")]),
        JObj([pid |-> JNum(3311), bundleId |-> JStr("com.apple.reminders")]),
        JObj([pid |-> JStr("x"), bundleId |-> JStr("com.example.app")]) }, MaxResults)}
    \cup {JNull, JStr("gone"), ErrorValue}


\* a found element, and an item that names no element
ElementObject(id) == JObj([ELEMENT |-> JStr(id)])
ResultObjects ==
    {ElementObject("E1"), ElementObject("E2"), JObj([name |-> JStr("x")])}
FindElementsValues ==
    {JArr(a) : a \in SeqsUpTo(ResultObjects, MaxResults)}
    \cup {JNull, ErrorValue, ElementObject("E1")}
FindElementValues ==
    ResultObjects \cup {ElementObject(""), JObj([ELEMENT |-> JNull]), JNull, ErrorValue,
                        JArr(<<ElementObject("E1")>>)}

\* the bytes of the strings put on the pasteboard: "h", "i", and two bytes
\* whose encodings use the last two characters of the alphabets
Bytes == {104, 105, 251, 255}
Hello == <<104, 101, 108, 108, 111>>
Contents == SeqsUpTo(Bytes, MaxLen) \cup {Hello, <<104, 105, 255>>}

FileSystem ==
    {[open |-> FALSE, read |-> FALSE, data |-> <<>>],
     [open |-> TRUE, read |-> FALSE, data |-> <<>>]}
    \cup {[open |-> TRUE, read |-> TRUE, data |-> d] : d \in {<<>>, <<255, 104>>}}


-----------------------------------------------------------------------------
(* State and actions *)

\* the receiver of every call
Self == [sessionURL |-> sessionURL]

Init ==
    /\ sessionURL \in BaseURLs
    /\ created = sessionURL
    /\ call = [op |-> "none", args |-> <<>>, t |-> Failed, reqs |-> <<>>,
               ret |-> None, err |-> Nil]
    /\ openFiles = {}

\* the invocation op(args) met t and returned r
Returned(op, args, t, r) ==
    /\ call' = [op |-> op, args |-> args, t |-> t, reqs |-> r.reqs,
                ret |-> r.ret, err |-> r.err]
    /\ sessionURL' = r.s.sessionURL
    /\ UNCHANGED created

CallGetActiveSession ==
    \E t \in Outcomes(SessionInfoValues) :
        /\ Returned("GetActiveSession", <<>>, t, GetActiveSession(Self, t))
        /\ UNCHANGED openFiles

CallDeleteSession ==
    \E t \in VoidOutcomes :
        /\ Returned("DeleteSession", <<>>, t, DeleteSession(Self, t))
        /\ UNCHANGED openFiles

CallAppLaunch ==
    \E b \in BundleIds, opt \in LaunchArgs, t \in VoidOutcomes :
        /\ Returned("AppLaunch", <<b, opt>>, t, AppLaunch(Self, b, opt, t))
        /\ UNCHANGED openFiles

CallDeviceInfo ==
    \E t \in Outcomes(DeviceInfoValues) :
        /\ Returned("DeviceInfo", <<>>, t, DeviceInfo(Self, t))
        /\ UNCHANGED openFiles

CallBatteryInfo ==
    \E t \in Outcomes(BatteryValues) :
        /\ Returned("BatteryInfo", <<>>, t, BatteryInfo(Self, t))
        /\ UNCHANGED openFiles

CallWindowSize ==
    \E t \in Outcomes(SizeValues) :
        /\ Returned("WindowSize", <<>>, t, WindowSize(Self, t))
        /\ UNCHANGED openFiles

CallScreen ==
    \E t \in Outcomes(ScreenValues) :
        /\ Returned("Screen", <<>>, t, Screen(Self, t))
        /\ UNCHANGED openFiles

CallScale ==
    \E t \in Outcomes(ScreenValues) :
        /\ Returned("Scale", <<>>, t, Scale(Self, t))
        /\ UNCHANGED openFiles

CallStatusBarSize ==
    \E t \in Outcomes(ScreenValues) :
        /\ Returned("StatusBarSize", <<>>, t, StatusBarSize(Self, t))
        /\ UNCHANGED openFiles

CallActiveAppsList ==
    \E t \in Outcomes(AppsListValues) :
        /\ Returned("ActiveAppsList", <<>>, t, ActiveAppsList(Self, t))
        /\ UNCHANGED openFiles

CallTap ==
    \E x \in 0..MaxCoord, y \in 0..MaxCoord, t \in VoidOutcomes :
        /\ Returned("Tap", <<x, y>>, t, Tap(Self, x, y, t))
        /\ UNCHANGED openFiles

CallDoubleTap ==
    \E x \in 0..MaxCoord, y \in 0..MaxCoord, t \in VoidOutcomes :
        /\ Returned("DoubleTap", <<x, y>>, t, DoubleTap(Self, x, y, t))
        /\ UNCHANGED openFiles

CallTouchAndHold ==
    \E x \in 0..MaxCoord, y \in 0..MaxCoord, d \in {<<>>, <<50>>, <<200, 50>>}, t \in VoidOutcomes :
        /\ Returned("TouchAndHold", <<x, y, d>>, t, TouchAndHold(Self, x, y, d, t))
        /\ UNCHANGED openFiles

CallAppTerminate ==
    \E b \in BundleIds, t \in VoidOutcomes :
        /\ Returned("AppTerminate", <<b>>, t, AppTerminate(Self, b, t))
        /\ UNCHANGED openFiles

CallAppState ==
    \E b \in BundleIds, t \in Outcomes({JNum(1), JNum(2), JNum(4), JNull, ErrorValue}) :
        /\ Returned("AppState", <<b>>, t, AppState(Self, b, t))
        /\ UNCHANGED openFiles

CallSendKeys ==
    \E text \in {"hi", ""}, t \in VoidOutcomes :
        /\ Returned("SendKeys", <<text>>, t, SendKeys(Self, text, t))
        /\ UNCHANGED openFiles

CallFindElements ==
    \E using \in {"name", "xpath"}, value \in {"OK"}, t \in Outcomes(FindElementsValues) :
        /\ Returned("FindElements", <<using, value>>, t, FindElements(Self, using, value, t))
        /\ UNCHANGED openFiles

CallFindElement ==
    \E using \in {"name", "xpath"}, value \in {"OK"}, t \in Outcomes(FindElementValues) :
        /\ Returned("FindElement", <<using, value>>, t, FindElement(Self, using, value, t))
        /\ UNCHANGED openFiles

CallAppActivate ==
    \E b \in BundleIds, t \in VoidOutcomes :
        /\ Returned("AppActivate", <<b>>, t, AppActivate(Self, b, t))
        /\ UNCHANGED openFiles

CallAppDeactivate ==
    \E d \in {<<>>, <<50>>, <<200, 50>>}, t \in VoidOutcomes :
        /\ Returned("AppDeactivate", <<d>>, t, AppDeactivate(Self, d, t))
        /\ UNCHANGED openFiles

CallSetPasteboard ==
    \E ct \in {WDAContentTypePlaintext, WDAContentTypeImage, WDAContentTypeUrl},
       c \in {EncodeToString(StdAlphabet, Hello), <<>>}, t \in VoidOutcomes :
        /\ Returned("SetPasteboard", <<ct, c>>, t, SetPasteboard(Self, ct, c, t))
        /\ UNCHANGED openFiles

CallSetPasteboardForPlaintext ==
    \E content \in Contents, t \in VoidOutcomes :
        /\ Returned("SetPasteboardForPlaintext", <<content>>, t, SetPasteboardForPlaintext(Self, content, t))
        /\ UNCHANGED openFiles

CallSetPasteboardForImage ==
    \E filename \in {"a.png", "b.png"}, fs \in FileSystem, t \in VoidOutcomes :
        LET r == SetPasteboardForImage(Self, filename, fs, openFiles, t)
        IN  /\ Returned("SetPasteboardForImage", <<filename, fs>>, t, r)
            /\ openFiles' = r.files

CallSetPasteboardForUrl ==
    \E url \in Contents, t \in VoidOutcomes :
        /\ Returned("SetPasteboardForUrl", <<url>>, t, SetPasteboardForUrl(Self, url, t))
        /\ UNCHANGED openFiles

CallPressButton ==
    \E b \in {WDADeviceButtonHome, WDADeviceButtonVolumeUp, WDADeviceButtonVolumeDown}, t \in VoidOutcomes :
        /\ Returned("PressButton", <<b>>, t, PressButton(Self, b, t))
        /\ UNCHANGED openFiles

CallPressHomeButton ==
    \E t \in VoidOutcomes :
        /\ Returned("PressHomeButton", <<>>, t, PressHomeButton(Self, t))
        /\ UNCHANGED openFiles

CallPressVolumeUpButton ==
    \E t \in VoidOutcomes :
        /\ Returned("PressVolumeUpButton", <<>>, t, PressVolumeUpButton(Self, t))
        /\ UNCHANGED openFiles

CallPressVolumeDownButton ==
    \E t \in VoidOutcomes :
        /\ Returned("PressVolumeDownButton", <<>>, t, PressVolumeDownButton(Self, t))
        /\ UNCHANGED openFiles

CallSiriActivate ==
    \E text \in {"hi", ""}, t \in VoidOutcomes :
        /\ Returned("SiriActivate", <<text>>, t, SiriActivate(Self, text, t))
        /\ UNCHANGED openFiles

CallSiriOpenURL ==
    \E url \in {"hi", ""}, t \in VoidOutcomes :
        /\ Returned("SiriOpenURL", <<url>>, t, SiriOpenURL(Self, url, t))
        /\ UNCHANGED openFiles

CallGetAppiumSettings ==
    \E t \in Outcomes({JObj([snapshotTimeout |-> JNum(15)]), JNull, ErrorValue}) :
        /\ Returned("GetAppiumSettings", <<>>, t, GetAppiumSettings(Self, t))
        /\ UNCHANGED openFiles

CallSetAppiumSetting ==
    \E k \in {"snapshotTimeout", "useFirstMatch"}, v \in {0, 15}, t \in Outcomes({JObj([snapshotTimeout |-> JNum(15)]), JNull, ErrorValue}) :
        /\ Returned("SetAppiumSetting", <<k, v>>, t, SetAppiumSetting(Self, k, v, t))
        /\ UNCHANGED openFiles

CallSetAppiumSettings ==
    \E k \in {"snapshotTimeout", "useFirstMatch"}, v \in {0, 15}, t \in Outcomes({JObj([snapshotTimeout |-> JNum(15)]), JNull, ErrorValue}) :
        /\ Returned("SetAppiumSettings", <<set(newWdaBody, k, v)>>, t, SetAppiumSettings(Self, set(newWdaBody, k, v), t))
        /\ UNCHANGED openFiles

CallActiveAppInfo ==
    \E t \in Outcomes({JStr("<tree/>"), JNull, ErrorValue}) :
        /\ Returned("ActiveAppInfo", <<>>, t, ActiveAppInfo(Self, t))
        /\ UNCHANGED openFiles

CallIsLocked ==
    \E t \in Outcomes({JBool(TRUE), JBool(FALSE), ErrorValue}) :
        /\ Returned("IsLocked", <<>>, t, IsLocked(Self, t))
        /\ UNCHANGED openFiles

CallUnlock ==
    \E t \in VoidOutcomes :
        /\ Returned("Unlock", <<>>, t, Unlock(Self, t))
        /\ UNCHANGED openFiles

CallLock ==
    \E t \in VoidOutcomes :
        /\ Returned("Lock", <<>>, t, Lock(Self, t))
        /\ UNCHANGED openFiles

CallSource ==
    \E t \in Outcomes({JStr("<tree/>"), JNull, ErrorValue}) :
        /\ Returned("Source", <<>>, t, Source(Self, t))
        /\ UNCHANGED openFiles

CallAccessibleSource ==
    \E t \in Outcomes({JStr("<tree/>"), JNull, ErrorValue}) :
        /\ Returned("AccessibleSource", <<>>, t, AccessibleSource(Self, t))
        /\ UNCHANGED openFiles

Next ==
    \/ CallGetActiveSession
    \/ CallDeleteSession
    \/ CallAppLaunch
    \/ CallDeviceInfo
    \/ CallBatteryInfo
    \/ CallWindowSize
    \/ CallScreen
    \/ CallScale
    \/ CallStatusBarSize
    \/ CallActiveAppsList
    \/ CallTap
    \/ CallDoubleTap
    \/ CallTouchAndHold
    \/ CallAppTerminate
    \/ CallAppState
    \/ CallSendKeys
    \/ CallFindElements
    \/ CallFindElement
    \/ CallAppActivate
    \/ CallAppDeactivate
    \/ CallSetPasteboard
    \/ CallSetPasteboardForPlaintext
    \/ CallSetPasteboardForImage
    \/ CallSetPasteboardForUrl
    \/ CallPressButton
    \/ CallPressHomeButton
    \/ CallPressVolumeUpButton
    \/ CallPressVolumeDownButton
    \/ CallSiriActivate
    \/ CallSiriOpenURL
    \/ CallGetAppiumSettings
    \/ CallSetAppiumSetting
    \/ CallSetAppiumSettings
    \/ CallActiveAppInfo
    \/ CallIsLocked
    \/ CallUnlock
    \/ CallLock
    \/ CallSource
    \/ CallAccessibleSource

Spec == Init /\ [][Next]_vars

-----------------------------------------------------------------------------
(* Properties *)

\* the embedded identifier of a result, "" when it names none
IdentifierOf(result) ==
    IF result.kind = "object" /\ "ELEMENT" \in DOMAIN result.v
       /\ result.v["ELEMENT"].kind = "string"
    THEN result.v["ELEMENT"].v ELSE ""

\* the results a response value holds: the items of an array, none for
\* null, and a value that is no array as the one result it is
ResultsHeld(value) ==
    IF value.kind = "array" THEN value.v
    ELSE IF value.kind \in {"null", "absent"} THEN <<>>
    ELSE <<value>>

IsPrefix(p, q) == Len(p) <= Len(q) /\ SubSeq(q, 1, Len(p)) = p

\* C1: when the transport succeeds, FindElements returns (nil,
\* ErrNoSuchElement) for a value holding no result, and for a value holding
\* n >= 1 results it returns no error and exactly n handles in the server's
\* order, the URL of each being the session URL joined with "element" and
\* the identifier of that result, so prefixed by the session URL.
FindElementsContract ==
    (call.op = "FindElements" /\ call.t.ok) =>
        LET results == ResultsHeld(call.t.value)
            n == Len(results)
        IN  IF n = 0
            THEN call.ret = <<>> /\ call.err = ErrNoSuchElement
            ELSE /\ call.err = Nil
                 /\ Len(call.ret) = n
                 /\ \A i \in 1..n :
                      /\ call.ret[i].elementURL =
                            urlJoin(created, <<"element", IdentifierOf(results[i])>>)
                      /\ IsPrefix(created, call.ret[i].elementURL)

\* FindElements returned two handles for two different elements
FindElementsTwoFound ==
    /\ call.op = "FindElements" /\ call.t.ok
    /\ call.t.value = JArr(<<ElementObject("E2"), ElementObject("E1")>>)
    /\ call.err = Nil
    /\ call.ret = << Element(created \o <<"element", "E2">>),
                     Element(created \o <<"element", "E1">>) >>

\* C2: when the transport succeeds, FindElement fails with ErrNoSuchElement
\* and returns the empty Element for a value with no element identifier, and
\* otherwise returns no error and the one handle whose URL is the session
\* URL joined with "element" and the identifier the value reports.
FindElementContract ==
    (call.op = "FindElement" /\ call.t.ok) =>
        LET id == IdentifierOf(call.t.value)
        IN  IF id = ""
            THEN call.ret = Element(NoURL) /\ call.err = ErrNoSuchElement
            ELSE /\ call.err = Nil
                 /\ call.ret = Element(created \o <<"element", id>>)

\* FindElement returned the handle of the reported element
FindElementFound ==
    /\ call.op = "FindElement" /\ call.t.ok
    /\ call.t.value = ElementObject("E2")
    /\ call.err = Nil
    /\ call.ret.elementURL = created \o <<"element", "E2">>

\* the response embeds a message that is not empty
EmbedsErrorMessage(t) ==
    /\ t.ok
    /\ t.value.kind = "object"
    /\ "message" \in DOMAIN t.value.v
    /\ t.value.v["message"].kind = "string"
    /\ t.value.v["message"].v # ""

\* the methods that send a request and return only an error
SendingMethods ==
    {"Tap", "DoubleTap", "TouchAndHold", "SendKeys", "AppLaunch", "AppTerminate",
     "AppActivate", "AppDeactivate", "SetPasteboard", "PressButton", "SiriActivate"}

\* C3: a sending method whose transport succeeded and whose response embeds
\* an error message that is not empty returns an error, never success.
ServerErrorIsReturned ==
    (call.op \in SendingMethods /\ EmbedsErrorMessage(call.t)) => call.err # Nil

\* C4 as claimed: a BatteryInfo that returns no error returns one of the
\* three defined states, whose String() is the documented phrase.
BatteryStateIsDefined ==
    (call.op = "BatteryInfo" /\ call.err = Nil) =>
        /\ call.ret.State \in {1, 2, 3}
        /\ WDABatteryState_String(call.ret.State) \in
              {"On battery, discharging", "Plugged in, less than 100%",
               "Plugged in, at 100%"}

\* the integer the value reports as the state, 0 when it reports none
ReportedState(value) ==
    IF value.kind = "object" /\ "state" \in DOMAIN value.v
       /\ value.v["state"].kind = "number"
    THEN value.v["state"].v ELSE 0

\* C4, amended: a BatteryInfo that returns no error returns the integer the
\* response reports as the state, whatever it is (0 when the response has no
\* state or a null one); String() is exactly "On battery, discharging" for 1,
\* "Plugged in, less than 100%" for 2, "Plugged in, at 100%" for 3 and
\* "UNKNOWN" for every other state.
BatteryStateAsReported ==
    (call.op = "BatteryInfo" /\ call.err = Nil) =>
        LET st == call.ret.State
            phrase == WDABatteryState_String(st)
        IN  /\ st = ReportedState(call.t.value)
            /\ (st = 1 => phrase = "On battery, discharging")
            /\ (st = 2 => phrase = "Plugged in, less than 100%")
            /\ (st = 3 => phrase = "Plugged in, at 100%")
            /\ (st \notin {1, 2, 3} => phrase = "UNKNOWN")

\* BatteryInfo returned the charging state of a response with level 0.92
BatteryCharging ==
    /\ call.op = "BatteryInfo" /\ call.err = Nil
    /\ call.t.value = JObj([level |-> JFrac(92), state |-> JNum(2)])
    /\ call.ret.Level = 92 /\ call.ret.State = WDABatteryCharging
    /\ WDABatteryState_String(call.ret.State) = "Plugged in, less than 100%"

\* C5: AppLaunch(bundleId) with no option posts to /wda/apps/launch the body
\* that AppLaunch(bundleId, opt) posts for an opt with only
\* shouldWaitForQuiescence=true: the bundle id and that flag, nothing else.
AppLaunchDefaultOption ==
    (call.op = "AppLaunch" /\ call.args[2] = <<>>) =>
        LET withOpt == AppLaunch([sessionURL |-> created], call.args[1],
                           <<SetShouldWaitForQuiescence(NewWDAAppLaunchOption, TRUE)>>,
                           call.t)
        IN  /\ Len(call.reqs) = 1
            /\ call.reqs[1].method = "POST"
            /\ call.reqs[1].url = created \o <<"wda", "apps", "launch">>
            /\ DOMAIN call.reqs[1].body = {"bundleId", "shouldWaitForQuiescence"}
            /\ call.reqs[1].body["bundleId"] = call.args[1]
            /\ call.reqs[1].body["shouldWaitForQuiescence"] = TRUE
            /\ call.reqs[1].body = withOpt.reqs[1].body

\* AppLaunch was called with no option and its request delivered
AppLaunchedWithoutOption ==
    /\ call.op = "AppLaunch" /\ call.args = <<"com.example.app", <<>>>>
    /\ call.t.ok /\ call.err = Nil
    /\ Len(call.reqs) = 1
    /\ call.reqs[1].body["shouldWaitForQuiescence"] = TRUE

\* C6: SetPasteboardForPlaintext(content) posts to /wda/setPasteboard a body
\* with contentType "plaintext" and a content that is the standard base64
\* encoding of content: decoding it gives back content ("hello" is posted
\* as "aGVsbG8=").
PlaintextRoundTrip ==
    (call.op = "SetPasteboardForPlaintext") =>
        /\ Len(call.reqs) = 1
        /\ call.reqs[1].method = "POST"
        /\ call.reqs[1].url = created \o <<"wda", "setPasteboard">>
        /\ DOMAIN call.reqs[1].body = {"contentType", "content"}
        /\ call.reqs[1].body["contentType"] = "plaintext"
        /\ DecodeString(StdAlphabet, call.reqs[1].body["content"]) =
              [ok |-> TRUE, bytes |-> call.args[1]]
        /\ Len(call.reqs[1].body["content"]) = 4 * ((Len(call.args[1]) + 2) \div 3)
        /\ (call.args[1] = Hello =>
              call.reqs[1].body["content"] = <<"a", "G", "V", "s", "b", "G", "8", "=">>)

\* "hello" was put on the pasteboard
HelloPosted ==
    /\ call.op = "SetPasteboardForPlaintext" /\ call.args[1] = Hello
    /\ call.t.ok /\ call.err = Nil
    /\ call.reqs[1].body["content"] = <<"a", "G", "V", "s", "b", "G", "8", "=">>
    /\ DecodeString(StdAlphabet, call.reqs[1].body["content"]).bytes = Hello

\* the methods that decode the value into one typed struct
DecodingMethods ==
    {"GetActiveSession", "DeviceInfo", "BatteryInfo", "WindowSize", "Screen"}

\* the text of the value of a response, as the methods take it from the
\* response: the raw JSON of an object, an array, a number or a boolean, the
\* characters of a string, nothing for null or a missing value
ReceivedText(value) ==
    IF value.kind \in {"null", "absent"} THEN EmptyText
    ELSE IF value.kind = "string" THEN PlainText(value.v)
    ELSE TextOf(value)

\* a typed result keeps the text: it has the field, and the field holds it
Keeps(info, text) == "_string" \in DOMAIN info /\ String_(info) = text

\* C7 as claimed: whenever the transport succeeded, every typed struct a
\* decoding method returns keeps the text of the value it was parsed from,
\* the entries of ActiveAppsList included, each the text of its item.
RawTextRetainedEverywhere ==
    /\ (call.op \in DecodingMethods /\ call.t.ok) =>
          Keeps(call.ret, ReceivedText(call.t.value))
    /\ (call.op = "ActiveAppsList" /\ call.t.ok /\ call.t.value.kind = "array") =>
          \A i \in 1..Len(call.ret) :
              Keeps(call.ret[i], ReceivedText(call.t.value.v[i]))

\* C7, amended: whenever the transport succeeded, the struct returned by
\* GetActiveSession, DeviceInfo, BatteryInfo, WindowSize or Screen keeps the
\* text of the response value it was parsed from, on decode success and on
\* decode failure alike, and String() returns it; the entries returned by
\* ActiveAppsList are filled by the decoder alone and keep no text.
RawTextRetained ==
    /\ (call.op \in DecodingMethods /\ call.t.ok) =>
          Keeps(call.ret, ReceivedText(call.t.value))
    /\ (call.op = "ActiveAppsList") =>
          \A i \in 1..Len(call.ret) : String_(call.ret[i]) = EmptyText

\* DeviceInfo failed to decode an object and returned its text
DeviceInfoUndecodedKept ==
    /\ call.op = "DeviceInfo" /\ call.t.ok
    /\ call.t.value.kind = "object"
    /\ call.err = ErrType
    /\ String_(call.ret) = TextOf(call.t.value)
    /\ call.ret.Model = "iPhone"

RequestOf ==
    [GetActiveSession |-> <<"GET">>, DeleteSession |-> <<"DELETE">>,
     AppLaunch |-> <<"POST", "wda", "apps", "launch">>,
     DeviceInfo |-> <<"GET", "wda", "device", "info">>,
     BatteryInfo |-> <<"GET", "wda", "batteryInfo">>,
     WindowSize |-> <<"GET", "window", "size">>,
     Screen |-> <<"GET", "wda", "screen">>,
     Scale |-> <<"GET", "wda", "screen">>,
     StatusBarSize |-> <<"GET", "wda", "screen">>,
     ActiveAppsList |-> <<"GET", "wda", "apps", "list">>,
     Tap |-> <<"POST", "wda", "tap", "0">>,
     DoubleTap |-> <<"POST", "wda", "doubleTap">>,
     TouchAndHold |-> <<"POST", "wda", "touchAndHold">>,
     AppTerminate |-> <<"POST", "wda", "apps", "terminate">>,
     AppState |-> <<"POST", "wda", "apps", "state">>,
     SendKeys |-> <<"POST", "wda", "keys">>,
     FindElements |-> <<"POST", "elements">>,
     FindElement |-> <<"POST", "element">>,
     AppActivate |-> <<"POST", "wda", "apps", "activate">>,
     AppDeactivate |-> <<"POST", "wda", "deactivateApp">>,
     SetPasteboard |-> <<"POST", "wda", "setPasteboard">>,
     SetPasteboardForPlaintext |-> <<"POST", "wda", "setPasteboard">>,
     SetPasteboardForImage |-> <<"POST", "wda", "setPasteboard">>,
     SetPasteboardForUrl |-> <<"POST", "wda", "setPasteboard">>,
     PressButton |-> <<"POST", "wda", "pressButton">>,
     PressHomeButton |-> <<"POST", "wda", "pressButton">>,
     PressVolumeUpButton |-> <<"POST", "wda", "pressButton">>,
     PressVolumeDownButton |-> <<"POST", "wda", "pressButton">>,
     SiriActivate |-> <<"POST", "wda", "siri", "activate">>,
     SiriOpenURL |-> <<"POST", "url">>,
     GetAppiumSettings |-> <<"GET", "appium", "settings">>,
     SetAppiumSetting |-> <<"POST", "appium", "settings">>,
     SetAppiumSettings |-> <<"POST", "appium", "settings">>,
     ActiveAppInfo |-> <<"GET", "wda", "activeAppInfo">>,
     IsLocked |-> <<"GET", "wda", "locked">>,
     Unlock |-> <<"POST", "wda", "unlock">>,
     Lock |-> <<"POST", "wda", "lock">>,
     Source |-> <<"GET", "source">>,
     AccessibleSource |-> <<"GET", "wda", "accessibleSource">>]

SessionURLUnchanged == sessionURL = created

\* FindElements derived two element URLs from a session URL it left alone
ElementsFoundURLKept ==
    /\ call.op = "FindElements" /\ call.err = Nil /\ Len(call.ret) = 2
    /\ \A i \in 1..2 : IsPrefix(sessionURL, call.ret[i].elementURL)
                       /\ call.ret[i].elementURL # sessionURL
    /\ sessionURL = created

\* C11: when SetPasteboardForImage has returned, no file handle is open,
\* whichever way it returned: with the error of os.Open and nothing opened,
\* with the error of the read, with the error of the transport of the post,
\* or with success.
ImageHandleClosed ==
    (call.op = "SetPasteboardForImage") =>
        LET fs == call.args[2]
        IN  /\ openFiles = {}
            /\ ~fs.open => call.err = ErrOpen /\ call.reqs = <<>>
            /\ (fs.open /\ ~fs.read) => call.err = ErrRead
            /\ (fs.open /\ fs.read) =>
                  call.err = IF call.t.ok THEN Nil ELSE ErrTransport

\* SetPasteboardForImage opened the file, failed to read it and returned
\* with the file closed
ImageReadFailedClosed ==
    /\ call.op = "SetPasteboardForImage"
    /\ call.args[2].open /\ ~call.args[2].read
    /\ call.err = ErrRead
    /\ openFiles = {}

====
